---- MODULE Spec2Model ----
(***************************************************************************)
(* A model of remind (src/remind/remind.py): notebooks and notes on a      *)
(* filesystem tree, note lookup across notebooks, and the template         *)
(* resolution and rendering of new notes.                                  *)
(*                                                                         *)
(* Strings are sequences of one-character strings.  A path is a sequence   *)
(* of names relative to the notes root (tld), so the root is <<>>.         *)
(* An optional value (Python None) is <<>>, a present value x is <<x>>.    *)
(***************************************************************************)
EXTENDS Naturals, Sequences, FiniteSets

VARIABLES
    dirs,       \* the directories of the filesystem (a set of paths)
    files,      \* the regular files of the filesystem (a set of paths)
    env,        \* REMIND_TEMPLATE_DIR: <<>> when unset, else <<path>>
    nb,         \* the live Notebook object and its Template: <<>> or <<record>>
    noteText,   \* content of the note file written by prepopulate: <<>> or <<text>>
    reads,      \* how many times a template text file was read
    loads,      \* how many times a dynamic unit was executed
    renders,    \* how many render calls were made on the Notebook object
    crashed,    \* an uncaught exception ended the process
    removed,    \* notebooks whose last note was deleted through the delete command
    last        \* what the last operation was given and what it returned

vars == <<dirs, files, env, nb, noteText, reads, loads, renders, crashed, removed, last>>

----------------------------------------------------------------------------
(* Bounds of the model. *)

MaxParts == 4
MaxRenders == 2

----------------------------------------------------------------------------
(* Strings *)

None == <<>>
Some(x) == <<x>>

WordChars ==
    {"a","b","c","d","e","f","g","h","i","j","k","l","m","n","o","p","q","r",
     "s","t","u","v","w","x","y","z","0","1","2","3","4","5","6","7","8","9","_"}

SpaceChars == {" ", "\t", "\n"}

RECURSIVE Flatten(_)
Flatten(ss) == IF ss = <<>> THEN <<>> ELSE Head(ss) \o Flatten(Tail(ss))

\* str.startswith("{{")
StartsWithBraces(s) == Len(s) >= 2 /\ s[1] = "{" /\ s[2] = "{"

\* s[2:-2]
Slice2(s) == IF Len(s) <= 4 THEN <<>> ELSE SubSeq(s, 3, Len(s) - 2)

RECURSIVE LStrip(_)
LStrip(s) == IF s # <<>> /\ Head(s) \in SpaceChars THEN LStrip(Tail(s)) ELSE s

RECURSIVE RStrip(_)
RStrip(s) ==
    IF s # <<>> /\ s[Len(s)] \in SpaceChars THEN RStrip(SubSeq(s, 1, Len(s) - 1)) ELSE s

\* str.strip()
Strip(s) == RStrip(LStrip(s))

----------------------------------------------------------------------------
(* Template._tokenize: re.split("({{[\s\w]*}})", text) *)

\* The end of the run of [\s\w] characters that starts at position j.
RECURSIVE ClassRunEnd(_, _)
ClassRunEnd(s, j) ==
    IF j <= Len(s) /\ s[j] \in (WordChars \cup SpaceChars) THEN ClassRunEnd(s, j + 1) ELSE j

\* The length of the match of {{[\s\w]*}} at position i, 0 when there is none.
MatchLen(s, i) ==
    IF i + 1 <= Len(s) /\ s[i] = "{" /\ s[i + 1] = "{"
    THEN LET j == ClassRunEnd(s, i + 2)
         IN  IF j + 1 <= Len(s) /\ s[j] = "}" /\ s[j + 1] = "}" THEN j + 2 - i ELSE 0
    ELSE 0

\* re.split with one capturing group: literal, match, literal, ..., literal.
RECURSIVE SplitFrom(_, _, _)
SplitFrom(s, start, i) ==
    IF i > Len(s) THEN << SubSeq(s, start, Len(s)) >>
    ELSE LET n == MatchLen(s, i)
         IN  IF n > 0
             THEN << SubSeq(s, start, i - 1), SubSeq(s, i, i + n - 1) >>
                  \o SplitFrom(s, i + n, i + n)
             ELSE SplitFrom(s, start, i + 1)

ReSplit(s) == SplitFrom(s, 1, 1)

\* template is the optional _template; None and "" are both falsy.
Tokenize(template) ==
    IF template # None /\ template[1] # <<>> THEN ReSplit(template[1]) ELSE <<>>

----------------------------------------------------------------------------
(* The dynamic unit (the module loaded from <notebook>.py).  f and g say    *)
(* what getattr(runner, name)(notebook, note.name) does for the attributes  *)
(* f and g; every other name is not an attribute.  val is the string a      *)
(* function of the unit returns.                                            *)

Behaviours == {"missing", "noncallable", "raises", "str", "nonstr"}

\* getattr(self._runner, fn)(self.notebook, note.name)
CallOutcome(runner, fn) ==
    IF runner = None THEN "missing"
    ELSE IF fn = <<"f">> THEN runner[1].f
    ELSE IF fn = <<"g">> THEN runner[1].g
    ELSE "missing"

\* The loop body of render with an except clause that blanks the token.
RenderTokenBlank(runner, token) ==
    IF StartsWithBraces(token)
    THEN LET fn == Strip(Slice2(token))
             o == CallOutcome(runner, fn)
         IN  IF o = "str" THEN [str |-> TRUE, val |-> runner[1].val]
             ELSE IF o = "nonstr" THEN [str |-> FALSE, val |-> <<>>]
             ELSE [str |-> TRUE, val |-> <<>>]
    ELSE [str |-> TRUE, val |-> token]

\* One pass of the loop body of render: the value appended to out.
\* An entry is a string (str = TRUE) or an object that is no string.
RenderToken(runner, token) ==
    IF StartsWithBraces(token)
    THEN LET fn == Strip(Slice2(token))
             o == CallOutcome(runner, fn)
         IN  IF o = "str" THEN [str |-> TRUE, val |-> runner[1].val]
             ELSE IF o = "nonstr" THEN [str |-> FALSE, val |-> <<>>]
             ELSE [str |-> TRUE, val |-> token]
    ELSE [str |-> TRUE, val |-> token]

RenderOut(runner, tokens) == [i \in 1..Len(tokens) |-> RenderToken(runner, tokens[i])]

\* The tokens whose identifier render looks up in the dynamic unit.
LookedUp(tokens) == {i \in 1..Len(tokens) : StartsWithBraces(tokens[i])}

\* "".join(out): raises TypeError when an item is no string.
Join(out) ==
    IF \A i \in 1..Len(out) : out[i].str
    THEN [ok |-> TRUE, val |-> Flatten([i \in 1..Len(out) |-> out[i].val])]
    ELSE [ok |-> FALSE, val |-> <<>>]

----------------------------------------------------------------------------
(* Names and paths *)

W == <<"w">>
P == <<"p">>
Hid == <<".", "h">>
R == <<"r">>
S == <<"s">>
A == <<"a">>
TmplName == <<"t">>

\* The literal "templates" (lines 148 and 329).
TemplatesName == <<"t","e","m","p","l","a","t","e","s">>

\* The literal "default" (line 163).
DefaultName == <<"d","e","f","a","u","l","t">>

TxtSuffix == <<".","t","x","t">>
PySuffix == <<".","p","y">>

\* A template-storage directory that does not lie under the notes root.
OutsideDir == << <<".", ".">>, <<"x">> >>

\* os.path.join(path, name), for a name that holds no separator.
PathJoin(path, name) == Append(path, name)

IsPrefix(p, q) == Len(p) <= Len(q) /\ SubSeq(q, 1, Len(p)) = p

\* The index of the last "/" of s, 0 when it has none.
RECURSIVE LastSlash(_)
LastSlash(s) ==
    IF s = <<>> THEN 0
    ELSE IF s[Len(s)] = "/" THEN Len(s)
    ELSE LastSlash(SubSeq(s, 1, Len(s) - 1))

HasSlash(s) == LastSlash(s) > 0

\* note.rsplit('/', 2)[-2:], for a note that holds a "/": <<notebook, note>>.
RSplitLastTwo(s) ==
    LET k == LastSlash(s)
        head == SubSeq(s, 1, k - 1)
        j == LastSlash(head)
    IN  << SubSeq(head, j + 1, Len(head)), SubSeq(s, k + 1, Len(s)) >>

\* The components of a relative name, split at "/".
RECURSIVE Components(_)
Components(s) ==
    LET k == LastSlash(s)
    IN  IF k = 0 THEN << s >>
        ELSE Components(SubSeq(s, 1, k - 1)) \o << SubSeq(s, k + 1, Len(s)) >>

\* os.path.join(path, name) for a relative name that may hold separators.
PathJoinName(path, name) == path \o Components(name)

----------------------------------------------------------------------------
(* Filesystem queries and updates.  D is the set of directories, F the     *)
(* set of regular files.                                                   *)

\* os.path.isdir
IsDir(D, p) == p \in D

\* os.path.isfile
IsFile(F, p) == p \in F

\* check_directory: os.path.exists
CheckDirectory(D, F, p) == p \in D \/ p \in F

RECURSIVE SetToSeq(_)
SetToSeq(X) ==
    IF X = {} THEN <<>>
    ELSE LET x == CHOOSE y \in X : TRUE IN << x >> \o SetToSeq(X \ {x})

\* os.listdir(p): the names of the entries of p, in the order the system gives.
Listdir(D, F, p) ==
    SetToSeq({ q[Len(q)] : q \in { e \in D \cup F : Len(e) = Len(p) + 1 /\ IsPrefix(p, e) } })

\* shutil.rmtree(p)
RmTreeDirs(D, p) == { q \in D : ~IsPrefix(p, q) }
RmTreeFiles(F, p) == { q \in F : ~IsPrefix(p, q) }

\* os.makedirs(p, exist_ok=True)
MakeDirs(D, p) == D \cup { SubSeq(p, 1, n) : n \in 1..Len(p) }

----------------------------------------------------------------------------
(* Notebook.discover, Notebook.find, Notebook.search, find_note *)

StartsWithDot(d) == Len(d) >= 1 /\ d[1] = "."

\* filter_by_name of command_list: name is the optional args.notebook.
FilterByName(name, candidate) == name = None \/ candidate = name[1]

\* The skip test without the test for a leading dot.
SkipEntryTemplatesOnly(d) == d = TemplatesName

\* The test that skips an entry of the root (line 329).
SkipEntry(d) == StartsWithDot(d) \/ d = TemplatesName

\* The loop of discover over the entries of the root; filt is None or Some(name filter).
RECURSIVE DiscoverLoop(_, _, _)
DiscoverLoop(D, entries, filt) ==
    IF entries = <<>> THEN <<>>
    ELSE LET d == Head(entries)
             rest == DiscoverLoop(D, Tail(entries), filt)
         IN  IF ~IsDir(D, << d >>) THEN rest
             ELSE IF SkipEntry(d) THEN rest
             ELSE IF filt = None \/ FilterByName(filt[1], d) THEN << d >> \o rest
             ELSE rest

Discover(D, F, filt) == DiscoverLoop(D, Listdir(D, F, <<>>), filt)

\* Notebook.find: the optional Note, a record of its notebook and its name.
Find(F, notebook, note) ==
    IF IsFile(F, PathJoinName(<< notebook >>, note))
    THEN Some([notebook |-> notebook, name |-> note]) ELSE None

RECURSIVE SearchLoop(_, _, _)
SearchLoop(F, notebooks, note) ==
    IF notebooks = <<>> THEN <<>>
    ELSE Find(F, Head(notebooks), note) \o SearchLoop(F, Tail(notebooks), note)

\* Notebook.search
Search(D, F, note) == SearchLoop(F, Discover(D, F, None), note)

\* The name find_note searches for when no notebook hint is given.
SearchedName(note) == IF HasSlash(note) THEN RSplitLastTwo(note)[2] ELSE note

\* find_note without the test for more than one match.
FindNoteResultFirstMatch(D, F, note, hint) ==
    IF hint # None /\ hint[1] # <<>>
    THEN IF ~CheckDirectory(D, F, << hint[1] >>)
         THEN [outcome |-> "no notebook", found |-> None]
         ELSE LET n == Find(F, hint[1], note)
              IN  [outcome |-> IF n = None THEN "none" ELSE "ok", found |-> n]
    ELSE LET matches == Search(D, F, SearchedName(note))
         IN  IF matches = <<>> THEN [outcome |-> "no match", found |-> None]
             ELSE [outcome |-> "ok", found |-> Some(matches[1])]

\* find_note: what it ends with, and the Note it returns.
FindNoteResult(D, F, note, hint) ==
    IF hint # None /\ hint[1] # <<>>
    THEN IF ~CheckDirectory(D, F, << hint[1] >>)
         THEN [outcome |-> "no notebook", found |-> None]
         ELSE LET n == Find(F, hint[1], note)
              IN  [outcome |-> IF n = None THEN "none" ELSE "ok", found |-> n]
    ELSE LET matches == Search(D, F, SearchedName(note))
         IN  IF matches = <<>> THEN [outcome |-> "no match", found |-> None]
             ELSE IF Len(matches) > 1 THEN [outcome |-> "more than one match", found |-> None]
             ELSE [outcome |-> "ok", found |-> Some(matches[1])]

----------------------------------------------------------------------------
(* Template *)

\* os.environ.get(TEMPLATE_DIR, os.path.join(self.tld, "templates"))
TemplateDir(e) == IF e = None THEN << TemplatesName >> ELSE e[1]

\* Template.__init__
NewTemplate(e, prompt_create) ==
    [dir |-> TemplateDir(e), prompt_create |-> prompt_create,
     resolved |-> FALSE, template |-> None, runner |-> None]

\* What the files of the template pair of a notebook hold: the text
\* "<name>{{f}}" and a unit whose f returns "#<name>".
TemplateText(name) == name \o <<"{","{","f","}","}">>
TemplateUnit(name) == [f |-> "str", g |-> "missing", val |-> <<"#">> \o name]

\* The module object left behind when executing the unit raised.
BrokenUnit == [f |-> "missing", g |-> "missing", val |-> <<>>]

TemplateSubdir(t, name) == PathJoin(t.dir, name)
TemplateTxt(t, name) == PathJoin(TemplateSubdir(t, name), name \o TxtSuffix)
TemplatePy(t, name) == PathJoin(TemplateSubdir(t, name), name \o PySuffix)

\* Whether both files of the pair of `name` are there.
PairComplete(F, t, name) == IsFile(F, TemplateTxt(t, name)) /\ IsFile(F, TemplatePy(t, name))

\* Template._configure(name).  found: the pair was there, its text was read
\* and its unit executed; raised: executing the unit raised.
Configure(F, t, name, loadOk) ==
    IF PairComplete(F, t, name)
    THEN [found |-> TRUE, raised |-> ~loadOk,
          t |-> [t EXCEPT !.template = Some(TemplateText(name)),
                          !.runner = Some(IF loadOk THEN TemplateUnit(name) ELSE BrokenUnit)]]
    ELSE [found |-> FALSE, raised |-> FALSE, t |-> t]

\* Template.create.  ans.create and ans.mkdir are the answers to the two
\* prompts, ans.wrote the files of the pair the user saves in the editor.
\* ret is the truth value of what create returns: False on the two early
\* returns, and None after the editor (the function ends without a return).
Create(D, F, t, name, ans) ==
    IF ~ans.create THEN [ret |-> FALSE, D |-> D, F |-> F]
    ELSE LET ntd == TemplateSubdir(t, name)
             missing == ~CheckDirectory(D, F, ntd)
         IN  IF missing /\ ~ans.mkdir THEN [ret |-> FALSE, D |-> D, F |-> F]
             ELSE [ret |-> FALSE,
                   D |-> IF missing THEN MakeDirs(D, ntd) ELSE D,
                   F |-> F \cup (IF "txt" \in ans.wrote THEN {TemplateTxt(t, name)} ELSE {})
                           \cup (IF "py" \in ans.wrote THEN {TemplatePy(t, name)} ELSE {})]

\* The last stage of _resolve: _configure("default"), then _resolved = True.
\* consulted: the names _configure was called with so far.
ResolveDefault(D, F, t, consulted, ans) ==
    LET c3 == Configure(F, t, DefaultName, ans.loadOk)
    IN  [t |-> [c3.t EXCEPT !.resolved = ~c3.raised], D |-> D, F |-> F,
         consulted |-> consulted \o << DefaultName >>,
         nfound |-> IF c3.found THEN 1 ELSE 0, raised |-> c3.raised]

\* The stage without the test "if not configured": the default is configured
\* in every case.
ResolveFoundThenDefault(D, F, c, consulted, ans) ==
    ResolveDefault(D, F, c.t, consulted, ans)

\* A stage of _resolve that ends it when c, the result of _configure(name),
\* found the pair, and goes on to the default otherwise.
ResolveFound(D, F, c, consulted, ans) ==
    IF c.found
    THEN [t |-> [c.t EXCEPT !.resolved = ~c.raised], D |-> D, F |-> F,
          consulted |-> consulted, nfound |-> 1, raised |-> c.raised]
    ELSE ResolveDefault(D, F, c.t, consulted, ans)

\* The interactive stage of _resolve: cr is what create() returned and left;
\* _configure(name) runs again only when create() returned a true value.
ResolveCreated(cr, t, name, ans) ==
    IF cr.ret
    THEN ResolveFound(cr.D, cr.F, Configure(cr.F, t, name, ans.loadOk), << name, name >>, ans)
    ELSE ResolveDefault(cr.D, cr.F, t, << name >>, ans)

\* Template._resolve.  consulted: the names _configure was called with, in
\* order; nfound: how many of these calls found (read and executed) a pair.
Resolve(D, F, t, name, ans) ==
    IF ~PairComplete(F, t, name) /\ t.prompt_create
    THEN ResolveCreated(Create(D, F, t, name, ans), t, name, ans)
    ELSE ResolveFound(D, F, Configure(F, t, name, ans.loadOk), << name >>, ans)

\* The loop of render over the tokens and the final join, for a Template
\* whose resolution r has ended.  raised: "" when render returns, "load" when
\* executing the unit raised in _resolve, "join" when "".join(out) raised.
RenderLoop(r, tokens, out) ==
    LET j == Join(out)
    IN  [t |-> r.t, D |-> r.D, F |-> r.F, consulted |-> r.consulted, nfound |-> r.nfound,
         tokens |-> tokens, out |-> out,
         raised |-> IF j.ok THEN "" ELSE "join", result |-> j.val]

RenderTokens(r, tokens) == RenderLoop(r, tokens, RenderOut(r.t.runner, tokens))

RenderResolved(r) ==
    IF r.raised
    THEN [t |-> r.t, D |-> r.D, F |-> r.F, consulted |-> r.consulted, nfound |-> r.nfound,
          tokens |-> <<>>, out |-> <<>>, raised |-> "load", result |-> <<>>]
    ELSE RenderTokens(r, Tokenize(r.t.template))

\* Template.render
Render(D, F, t, name, ans) ==
    RenderResolved(IF t.resolved
                   THEN [t |-> t, D |-> D, F |-> F, consulted |-> <<>>,
                         nfound |-> 0, raised |-> FALSE]
                   ELSE Resolve(D, F, t, name, ans))

\* The property without the cache: a new Template on every use.
TemplatePropertyFresh(n, e) == NewTemplate(e, FALSE)

\* The property Notebook.template: the Template of the Notebook n, made on first use.
TemplateProperty(n, e) == IF n.tmpl = None THEN NewTemplate(e, FALSE) ELSE n.tmpl[1]

----------------------------------------------------------------------------
(* Notebook construction, note creation *)

\* The answers a user can give while a template is resolved, and what the
\* environment does when the unit is executed (loadOk).
Answers ==
    [create : BOOLEAN, mkdir : BOOLEAN, wrote : SUBSET {"txt", "py"}, loadOk : BOOLEAN]

NoAnswers == [create |-> FALSE, mkdir |-> FALSE, wrote |-> {}, loadOk |-> TRUE]

\* Notebook.__init__ with _assert_existence: Notebook(tld, name, prompt_create).
\* agree is the answer to "does not exist, create?".
NewNotebook(name, prompt_create, agree) ==
    /\ nb = None
    /\ ~crashed
    /\ LET there == CheckDirectory(dirs, files, << name >>)
           made == ~there /\ prompt_create /\ agree
       IN  /\ dirs' = IF made THEN MakeDirs(dirs, << name >>) ELSE dirs
           /\ nb' = IF there THEN Some([name |-> name, tmpl |-> None])
                    ELSE IF made
                    THEN Some([name |-> name, tmpl |-> Some(NewTemplate(env, TRUE))])
                    ELSE None
           /\ crashed' = ~(there \/ made)
           /\ last' = [op |-> "notebook", name |-> name,
                       outcome |-> IF there \/ made THEN "ok" ELSE "exit 1"]
    /\ UNCHANGED <<files, env, noteText, reads, loads, renders, removed>>

\* Note(notebook, note).prepopulate(): the template property, open(path, "w+"),
\* render, write.
Prepopulate(note) ==
    /\ nb # None
    /\ ~crashed
    /\ renders < MaxRenders
    /\ IsDir(dirs, << nb[1].name >>)   \* open() needs the notebook directory
    /\ \E t0 \in { TemplateProperty(nb[1], env) } :
         \E ans \in (IF t0.resolved THEN {NoAnswers} ELSE Answers) :
           \E r \in { Render(dirs, files, t0, nb[1].name, ans) } :
                 /\ dirs' = r.D
                 /\ files' = r.F \cup { PathJoin(<< nb[1].name >>, note) }
                 /\ nb' = Some([nb[1] EXCEPT !.tmpl = Some(r.t)])
                 /\ noteText' = Some(r.result)
                 /\ reads' = reads + r.nfound
                 /\ loads' = loads + r.nfound
                 /\ renders' = renders + 1
                 /\ crashed' = (r.raised # "")
                 /\ last' = [op |-> "prepopulate", note |-> note, ans |-> ans,
                             name |-> nb[1].name,
                             asked |-> t0.prompt_create,
                             wasResolved |-> t0.resolved,
                             pairAtStart |-> PairComplete(files, t0, nb[1].name),
                             consulted |-> r.consulted,
                             tokens |-> r.tokens, out |-> r.out,
                             looked |-> LookedUp(r.tokens),
                             raised |-> r.raised, result |-> r.result]
    /\ UNCHANGED <<env, removed>>

----------------------------------------------------------------------------
(* The commands find, list and delete *)

\* find_note(tld, note, hint), as command_find and command_edit call it.
FindNote(note, hint) ==
    /\ last' = [op |-> "find", note |-> note, hint |-> hint,
                res |-> FindNoteResult(dirs, files, note, hint)]
    /\ UNCHANGED <<dirs, files, env, nb, noteText, reads, loads, renders, crashed, removed>>

\* Notebook.discover(tld, filt).
DiscoverCall(filt) ==
    /\ last' = [op |-> "discover", filt |-> filt, result |-> Discover(dirs, files, filt)]
    /\ UNCHANGED <<dirs, files, env, nb, noteText, reads, loads, renders, crashed, removed>>

\* Template.delete: agree is the answer to "Do you want to delete the template".
TemplateDelete(D, F, t, name, agree) ==
    LET ntd == TemplateSubdir(t, name)
    IN  IF CheckDirectory(D, F, ntd) /\ agree
        THEN [D |-> RmTreeDirs(D, ntd), F |-> RmTreeFiles(F, ntd)]
        ELSE [D |-> D, F |-> F]

\* Notebook.delete of a notebook whose path is a directory.
NotebookDelete(D, F, e, name, agree) ==
    TemplateDelete(RmTreeDirs(D, << name >>), RmTreeFiles(F, << name >>),
                   NewTemplate(e, FALSE), name, agree)

\* command_delete that leaves an emptied notebook in place.
DeleteResultNoCascade(D, F, e, notebook, note, sure, agree) ==
    IF ~CheckDirectory(D, F, << notebook >>)
    THEN [outcome |-> "no notebook", D |-> D, F |-> F, emptied |-> FALSE]
    ELSE IF note # None /\ note[1] # <<>>
    THEN IF Find(F, notebook, note[1]) = None
         THEN [outcome |-> "no note", D |-> D, F |-> F, emptied |-> FALSE]
         ELSE IF ~sure
         THEN [outcome |-> "declined", D |-> D, F |-> F, emptied |-> FALSE]
         ELSE LET F1 == F \ { PathJoinName(<< notebook >>, note[1]) }
              IN  [outcome |-> "deleted note", D |-> D, F |-> F1,
                   emptied |-> Listdir(D, F1, << notebook >>) = <<>>]
    ELSE IF ~sure
    THEN [outcome |-> "declined", D |-> D, F |-> F, emptied |-> FALSE]
    ELSE IF ~IsDir(D, << notebook >>)
    THEN [outcome |-> "error", D |-> D, F |-> F, emptied |-> FALSE]
    ELSE LET fs == NotebookDelete(D, F, e, notebook, agree)
         IN  [outcome |-> "deleted notebook", D |-> fs.D, F |-> fs.F, emptied |-> FALSE]

\* command_delete with Git disabled (REMIND_GIT_DISABLE=1): the outcome and
\* the filesystem it leaves.  note is the optional args.note; sure answers
\* "Are you sure you want to delete", agree the template prompt.
DeleteResult(D, F, e, notebook, note, sure, agree) ==
    IF ~CheckDirectory(D, F, << notebook >>)
    THEN [outcome |-> "no notebook", D |-> D, F |-> F, emptied |-> FALSE]
    ELSE IF note # None /\ note[1] # <<>>
    THEN IF Find(F, notebook, note[1]) = None
         THEN [outcome |-> "no note", D |-> D, F |-> F, emptied |-> FALSE]
         ELSE IF ~sure
         THEN [outcome |-> "declined", D |-> D, F |-> F, emptied |-> FALSE]
         ELSE LET F1 == F \ { PathJoinName(<< notebook >>, note[1]) }
                  empty == Listdir(D, F1, << notebook >>) = <<>>
                  fs == IF empty THEN NotebookDelete(D, F1, e, notebook, agree)
                        ELSE [D |-> D, F |-> F1]
              IN  [outcome |-> "deleted note", D |-> fs.D, F |-> fs.F, emptied |-> empty]
    ELSE IF ~sure
    THEN [outcome |-> "declined", D |-> D, F |-> F, emptied |-> FALSE]
    ELSE IF ~IsDir(D, << notebook >>)
    THEN [outcome |-> "error", D |-> D, F |-> F, emptied |-> FALSE]
    ELSE LET fs == NotebookDelete(D, F, e, notebook, agree)
         IN  [outcome |-> "deleted notebook", D |-> fs.D, F |-> fs.F, emptied |-> FALSE]

DeleteCommand(notebook, note, sure, agree) ==
    \E r \in { DeleteResult(dirs, files, env, notebook, note, sure, agree) },
       there \in { CheckDirectory(dirs, files,
                                   TemplateSubdir(NewTemplate(env, FALSE), notebook)) } :
        /\ dirs' = r.D
        /\ files' = r.F
        /\ removed' = IF r.emptied
                      THEN { x \in removed : x.name # notebook }
                           \cup {[name |-> notebook, tmplThere |-> there,
                                  agreed |-> there /\ agree]}
                      ELSE removed
        /\ last' = [op |-> "delete", notebook |-> notebook, note |-> note,
                    outcome |-> r.outcome, emptied |-> r.emptied]
        /\ UNCHANGED <<env, nb, noteText, reads, loads, renders, crashed>>

----------------------------------------------------------------------------
(* Rendering: a Notebook whose Template is already resolved, over every     *)
(* template text of at most MaxParts pieces and every dynamic unit.         *)

Pieces ==
    { <<"{","{">>, <<"}","}">>, <<"f">>, <<"g">>, <<" ">>, <<"!">>, <<"{","{","f","}","}">> }

Texts == { Flatten(ps) : ps \in UNION { [1..n -> Pieces] : n \in 0..MaxParts } }

Units == [f : Behaviours, g : {"str", "nonstr"}, val : { <<"V">> }]

ResolvedTemplates ==
    { [dir |-> << TemplatesName >>, prompt_create |-> FALSE, resolved |-> TRUE,
       template |-> Some(x), runner |-> Some(u)] : x \in Texts, u \in Units }
    \cup { [dir |-> << TemplatesName >>, prompt_create |-> FALSE, resolved |-> TRUE,
            template |-> None, runner |-> None] }

InitRender ==
    /\ dirs = { << W >> }
    /\ files = {}
    /\ env = None
    /\ nb \in { Some([name |-> W, tmpl |-> Some(t)]) : t \in ResolvedTemplates }
    /\ noteText = None
    /\ reads = 0
    /\ loads = 0
    /\ renders = 0
    /\ crashed = FALSE
    /\ removed = {}
    /\ last = [op |-> "init"]

NextRender == \E note \in {S} : Prepopulate(note)

SpecRender == InitRender /\ [][NextRender]_vars

----------------------------------------------------------------------------
(* Template resolution: one process that makes a Notebook and creates up    *)
(* to MaxRenders notes in it, over every state of the template storage.     *)

PairStates == {"none", "dir", "txt", "py", "both"}

\* The entries of the template storage of `name` in pair state k.
PairDirs(name, k) ==
    IF k = "none" THEN {} ELSE { << TemplatesName >>, << TemplatesName, name >> }

PairFiles(name, k) ==
    (IF k \in {"txt", "both"} THEN { << TemplatesName, name, name \o TxtSuffix >> } ELSE {})
    \cup (IF k \in {"py", "both"} THEN { << TemplatesName, name, name \o PySuffix >> } ELSE {})

InitTemplate ==
    /\ \E kw \in PairStates, kd \in PairStates, nbs \in SUBSET { << W >>, << DefaultName >> } :
         /\ dirs = nbs \cup PairDirs(W, kw) \cup PairDirs(DefaultName, kd)
         /\ files = PairFiles(W, kw) \cup PairFiles(DefaultName, kd)
    /\ env = None
    /\ nb = None
    /\ noteText = None
    /\ reads = 0
    /\ loads = 0
    /\ renders = 0
    /\ crashed = FALSE
    /\ removed = {}
    /\ last = [op |-> "init"]

NextTemplate ==
    \/ \E name \in {W, DefaultName}, pc \in BOOLEAN, agree \in BOOLEAN :
         NewNotebook(name, pc, agree)
    \/ \E note \in {S, A} : Prepopulate(note)

SpecTemplate == InitTemplate /\ [][NextTemplate]_vars

----------------------------------------------------------------------------
(* Notes: the commands find, list and delete over every layout of a small   *)
(* notes tree.                                                              *)

Slash == <<"/">>

NoteArgs == { S, A, W \o Slash \o S, Hid \o Slash \o S }

Hints == { None, Some(W), Some(R) }

Filters == { None, Some(None), Some(Some(W)) }

TreeDirs(wk, pk, hk, tk, mk) ==
    (IF wk # "absent" THEN { << W >> } ELSE {})
    \cup (IF pk # "absent" THEN { << P >> } ELSE {})
    \cup (IF pk = "sdir" THEN { << P, S >> } ELSE {})
    \cup (IF hk THEN { << Hid >> } ELSE {})
    \cup (IF tk # "absent" THEN { << TemplatesName >> } ELSE {})
    \cup (IF tk = "w" THEN { << TemplatesName, W >> } ELSE {})
    \cup (IF mk THEN { << TmplName >>, << TmplName, W >> } ELSE {})
    \cup { OutsideDir, PathJoin(OutsideDir, W) }

TreeFiles(wk, pk, hk, mk) ==
    { << R >> }
    \cup (IF wk \in {"s", "sa"} THEN { << W, S >> } ELSE {})
    \cup (IF wk = "sa" THEN { << W, A >> } ELSE {})
    \cup (IF pk = "s" THEN { << P, S >> } ELSE {})
    \cup (IF hk THEN { << Hid, S >> } ELSE {})
    \cup (IF mk THEN { << TmplName, S >> } ELSE {})

Init ==
    /\ \E wk \in {"absent", "s", "sa"}, pk \in {"absent", "s", "sdir"},
          hk \in {TRUE}, tk \in {"absent", "w"}, mk \in BOOLEAN :
         /\ dirs = TreeDirs(wk, pk, hk, tk, mk)
         /\ files = TreeFiles(wk, pk, hk, mk)
    /\ env \in { None, Some(<< TmplName >>), Some(OutsideDir) }
    /\ nb = None
    /\ noteText = None
    /\ reads = 0
    /\ loads = 0
    /\ renders = 0
    /\ crashed = FALSE
    /\ removed = {}
    /\ last = [op |-> "init"]

Next ==
    \/ \E note \in NoteArgs, hint \in Hints : FindNote(note, hint)
    \/ \E filt \in Filters : DiscoverCall(filt)
    \/ \E notebook \in {W, P, R}, note \in {None, Some(S)},
          sure \in BOOLEAN, agree \in BOOLEAN :
         DeleteCommand(notebook, note, sure, agree)

Spec == Init /\ [][Next]_vars


----------------------------------------------------------------------------
(* Properties of the commands find, list and delete (checked under Spec) *)

Range(q) == { q[i] : i \in 1..Len(q) }

\* The entries of the notes root.
RootEntries == { e[1] : e \in { x \in dirs \cup files : Len(x) = 1 } }

\* The discovered notebooks that hold a regular file named x.
Holders(x) == { d \in Range(Discover(dirs, files, None)) : << d, x >> \in files }

\* C1: find_note with no notebook hint and a name x without a separator ends
\* with "more than one match" when two or more discovered notebooks hold a
\* file named x, with "no match" when none does, and returns the Note of the
\* one notebook that holds x when exactly one does.
C1_FindNoteByHolders ==
    (last.op = "find" /\ last.hint = None /\ ~HasSlash(last.note)) =>
        /\ Cardinality(Holders(last.note)) >= 2 => last.res.outcome = "more than one match"
        /\ Cardinality(Holders(last.note)) = 0 => last.res.outcome = "no match"
        /\ Cardinality(Holders(last.note)) = 1 =>
             /\ last.res.outcome = "ok"
             /\ \E d \in Holders(last.note) :
                  last.res.found = Some([notebook |-> d, name |-> last.note])

\* A find of a name that two notebooks hold ended with "more than one match".
C1_Witness ==
    /\ last.op = "find" /\ last.hint = None /\ last.note = S
    /\ Holders(S) = {W, P}
    /\ last.res.outcome = "more than one match"

\* C2: find_note of "N/x" with no hint, where the notebook N holds a note x,
\* returns the note x of N, also when other notebooks hold a note named x.
C2_QualifiedNameResolves ==
    (/\ last.op = "find" /\ last.hint = None /\ HasSlash(last.note)
     /\ RSplitLastTwo(last.note)[1] \in Range(Discover(dirs, files, None))
     /\ << RSplitLastTwo(last.note)[1], RSplitLastTwo(last.note)[2] >> \in files) =>
        /\ last.res.outcome = "ok"
        /\ last.res.found = Some([notebook |-> RSplitLastTwo(last.note)[1],
                                  name |-> RSplitLastTwo(last.note)[2]])

\* The template-storage subdirectory of a notebook.
StorageOf(name) == PathJoin(TemplateDir(env), name)

\* C7 as stated: once the last note of a notebook was deleted through the
\* delete command, the notebook directory and its template-storage
\* subdirectory are gone and discover does not return the notebook.
C7_LastNoteDeleteCleansAll ==
    \A x \in removed :
        /\ << x.name >> \notin dirs
        /\ StorageOf(x.name) \notin dirs
        /\ x.name \notin Range(Discover(dirs, files, None))
        /\ last.op = "discover" => x.name \notin Range(last.result)

\* C7 as amended: once the last note of a notebook was deleted through the
\* delete command, the notebook directory is gone and discover does not
\* return the notebook; its template-storage subdirectory stays exactly when
\* it existed and the user declined the prompt of Template.delete.
C7_LastNoteDeleteRemovesNotebook ==
    \A x \in removed :
        /\ << x.name >> \notin dirs
        /\ x.name \notin Range(Discover(dirs, files, None))
        /\ last.op = "discover" => x.name \notin Range(last.result)
        /\ StorageOf(x.name) \in dirs => (x.tmplThere /\ ~x.agreed)
        /\ (last.op = "delete" /\ last.notebook = x.name /\ last.emptied) =>
             (StorageOf(x.name) \in dirs <=> (x.tmplThere /\ ~x.agreed))

\* The last note of w was deleted, the user kept the template, and a later
\* discover did not return w.
C7_Witness ==
    /\ last.op = "discover" /\ last.filt = None
    /\ \E x \in removed : x.name = W /\ x.tmplThere /\ ~x.agreed /\ StorageOf(W) \in dirs
    /\ P \in Range(last.result)

\* Whether discover called with filt lets the name d through.
Passes(filt, d) == filt = None \/ filt[1] = None \/ filt[1][1] = d

\* C8 as stated: discover returns exactly the directories of the root whose
\* name has no leading dot, that are not the directory templates are read
\* from, and that pass the filter.
C8_DiscoverSkipsTemplateStorage ==
    last.op = "discover" =>
        /\ Range(last.result) =
             { d \in RootEntries : /\ << d >> \in dirs
                                   /\ d[1] # "."
                                   /\ << d >> # TemplateDir(env)
                                   /\ Passes(last.filt, d) }
        /\ Cardinality(Range(last.result)) = Len(last.result)

\* C8 as amended: discover returns exactly the directories of the root whose
\* name has no leading dot, that are not named "templates", and that pass the
\* filter, whichever directory templates are read from.
C8_DiscoverSkipsTemplatesName ==
    last.op = "discover" =>
        /\ Range(last.result) =
             { d \in RootEntries : /\ << d >> \in dirs
                                   /\ d[1] # "."
                                   /\ d # TemplatesName
                                   /\ Passes(last.filt, d) }
        /\ Cardinality(Range(last.result)) = Len(last.result)

\* With templates read from <root>/t, discover returned t and left out the
\* directory named templates.
C8_Witness ==
    /\ last.op = "discover" /\ last.filt = None
    /\ env = Some(<< TmplName >>)
    /\ << TemplatesName >> \in dirs /\ << Hid >> \in dirs /\ << R >> \in files
    /\ Range(last.result) = {W, P, TmplName}

----------------------------------------------------------------------------
(* Properties of rendering (checked under SpecRender) *)

\* The Template of the live Notebook.
TheTemplate == nb[1].tmpl[1]

\* A token that is a placeholder: the whole of it matches {{[\s\w]*}}.
IsPlaceholder(token) == Len(token) >= 4 /\ MatchLen(token, 1) = Len(token)

\* The identifier of a placeholder: what is between the braces, trimmed.
Identifier(token) == Strip(SubSeq(token, 3, Len(token) - 2))

\* A placeholder whose function is no attribute of the unit, is not callable,
\* or raises.
IsBroken(token) ==
    /\ IsPlaceholder(token)
    /\ CallOutcome(TheTemplate.runner, Identifier(token))
         \in {"missing", "noncallable", "raises"}

\* C3: render emits every placeholder whose identifier is no attribute of the
\* unit, is not callable, or names a function that raises, as its own source
\* text, and goes on with the rest of the template: every token gets its
\* entry in the output, and what render returns is the entries joined, which
\* is what the note file then holds.
C3_BrokenPlaceholderIsLiteral ==
    last.op = "prepopulate" =>
        /\ Len(last.out) = Len(last.tokens)
        /\ \A i \in 1..Len(last.tokens) :
             IsBroken(last.tokens[i]) => last.out[i] = [str |-> TRUE, val |-> last.tokens[i]]
        /\ last.raised = "" =>
             /\ last.result = Flatten([i \in 1..Len(last.out) |-> last.out[i].val])
             /\ noteText = Some(last.result)

\* "{{f}}{{g}}" with f missing and g returning "V" rendered to "{{f}}V".
C3_Witness ==
    /\ last.op = "prepopulate"
    /\ TheTemplate.template = Some(<<"{","{","f","}","}","{","{","g","}","}">>)
    /\ IsBroken(last.tokens[2])
    /\ last.raised = ""
    /\ noteText = Some(<<"{","{","f","}","}","V">>)

\* C4: whatever the functions of the placeholders do or return, render
\* returns a string and prepopulate writes it to the note file.  Stated for
\* the templates in which every token that is looked up is a placeholder.
C4_RenderNeverAborts ==
    (last.op = "prepopulate" /\ \A i \in last.looked : IsPlaceholder(last.tokens[i])) =>
        /\ ~crashed
        /\ last.raised = ""
        /\ noteText = Some(last.result)

\* C5: text that is no placeholder is emitted unchanged: the entry of every
\* literal span is the span itself, also of a span that begins with "{{",
\* and a template without a placeholder renders to its own text.
C5_LiteralSpansVerbatim ==
    last.op = "prepopulate" =>
        /\ \A i \in 1..Len(last.tokens) :
             ~IsPlaceholder(last.tokens[i]) =>
                 last.out[i] = [str |-> TRUE, val |-> last.tokens[i]]
        /\ (TheTemplate.template # None /\ Len(last.tokens) <= 1) =>
             (last.raised = "" /\ last.result = TheTemplate.template[1])

----------------------------------------------------------------------------
(* Properties of template resolution (checked under SpecTemplate) *)

\* What the pair of `name` renders to: its text "<name>{{f}}" with the
\* placeholder replaced by "#<name>", what f of its unit returns.
RenderingOf(name) == name \o <<"#">> \o name

\* The last operation was a prepopulate that had to resolve the template.
Resolving == last.op = "prepopulate" /\ ~last.wasResolved

\* C6: when the pair of the notebook is complete it is used and no other
\* pair is consulted; when it is missing and the lookup of the default finds
\* a complete pair, the text and the unit of the default are used; when
\* neither lookup finds a complete pair, render returns the empty string.
C6_FallbackOrder ==
    Resolving =>
        /\ last.pairAtStart =>
             /\ last.consulted = << last.name >>
             /\ TheTemplate.template = Some(TemplateText(last.name))
             /\ last.raised = "" =>
                  /\ TheTemplate.runner = Some(TemplateUnit(last.name))
                  /\ last.result = RenderingOf(last.name)
        /\ (~last.pairAtStart /\ PairComplete(files, TheTemplate, DefaultName)) =>
             /\ last.consulted[Len(last.consulted)] = DefaultName
             /\ TheTemplate.template = Some(TemplateText(DefaultName))
             /\ last.raised = "" =>
                  /\ TheTemplate.runner = Some(TemplateUnit(DefaultName))
                  /\ last.result = RenderingOf(DefaultName)
        /\ (~last.pairAtStart /\ ~PairComplete(files, TheTemplate, DefaultName)) =>
             /\ last.raised = ""
             /\ last.result = <<>>
             /\ noteText = Some(<<>>)

\* The notebook w had only its .txt file, the default pair was complete, and
\* the note got the rendering of the default.
C6_Witness ==
    /\ Resolving /\ last.name = W /\ ~last.pairAtStart
    /\ << TemplatesName, W, W \o TxtSuffix >> \in files
    /\ << TemplatesName, W, W \o PySuffix >> \notin files
    /\ last.raised = ""
    /\ noteText = Some(RenderingOf(DefaultName))

\* C9: when the pair of the notebook is missing, the Template was built with
\* prompt_create, and the user accepts and writes both files, the lookup of
\* the notebook runs again and render uses the new pair.
C9_CreatedPairIsUsed ==
    (/\ Resolving /\ last.asked /\ ~last.pairAtStart
     /\ last.ans.create /\ last.ans.wrote = {"txt", "py"} /\ last.ans.loadOk
     /\ PairComplete(files, TheTemplate, last.name)) =>
        /\ last.consulted[2] = last.name
        /\ TheTemplate.template = Some(TemplateText(last.name))
        /\ last.result = RenderingOf(last.name)

\* C10: making a Notebook reads no template; over the prepopulate calls on
\* one Notebook a template text is read at most once and a unit executed at
\* most once, and every call after the first consults no file.
C10_ResolvedOnce ==
    /\ reads <= 1
    /\ loads <= 1
    /\ renders = 0 => (reads = 0 /\ loads = 0)
    /\ (last.op = "prepopulate" /\ renders >= 2) =>
         (last.wasResolved /\ last.consulted = <<>>)
    /\ (nb # None /\ renders >= 1 /\ ~crashed) => (nb[1].tmpl # None /\ TheTemplate.resolved)

\* A second note was made from the template read for the first.
C10_Witness ==
    /\ last.op = "prepopulate" /\ renders = 2 /\ reads = 1 /\ loads = 1
    /\ last.wasResolved
    /\ noteText = Some(RenderingOf(W))

====
